---- MODULE Spec2Model ----
(***************************************************************************)
(* Open-addressing hash map with linear probing and tombstones             *)
(* (src/src/lib.rs).  The slot array is a function over 0..capacity-1, as  *)
(* the code indexes it; the hash function is an arbitrary deterministic    *)
(* function of the key, fixed in the initial state.                        *)
(***************************************************************************)
EXTENDS Integers, FiniteSets, Sequences, TLC

\* ---- bounds -------------------------------------------------------------
NumKeys == 3
NumVals == 2
MaxHash == 1

Keys == 1..NumKeys
Vals == 1..NumVals
Hashes == 0..MaxHash

\* ---- program constants --------------------------------------------------
INITIAL_SIZE == 1

\* ---- Entry<K, V> --------------------------------------------------------
Empty == [tag |-> "Empty", key |-> 0, val |-> 0]
Del == [tag |-> "Del", key |-> 0, val |-> 0]
Pair(k, v) == [tag |-> "Pair", key |-> k, val |-> v]

\* ---- Option<V>, bool and the panic outcome of a call --------------------
None == [kind |-> "None", val |-> 0]
Some(v) == [kind |-> "Some", val |-> v]
Bool(b) == [kind |-> IF b THEN "true" ELSE "false", val |-> 0]
Panic == [kind |-> "Panic", val |-> 0]

VARIABLES
    table,      \* HashMap.table : Vec<Entry<K, V>>, indexed 0..len-1
    items,      \* HashMap.items
    tombs,      \* HashMap.tombs
    hash,       \* the deterministic hash function of the key type
    op,         \* the last call made on the map
    res,        \* what that call returned (or Panic)
    ref,        \* reference map driven by the same calls (0 = not stored)
    removed,    \* keys whose last successful call was remove
    grows       \* number of growth resizes so far

vars == <<table, items, tombs, hash, op, res, ref, removed, grows>>

\* table.len()
Cap(t) == Cardinality(DOMAIN t)

\* the map as a value: what the methods read and write through self
Self == [table |-> table, items |-> items, tombs |-> tombs]

\* prehash: DefaultHasher over the key
prehash(key) == hash[key]

\* Vec of new_size Empty entries
EmptyTable(new_size) == [i \in 0..(new_size - 1) |-> Empty]

\* a slip of the inner while: the pair is written at its home slot unprobed
ResizeProbeNone(new_table, idx) == idx

\* resize, the inner while: first slot from idx on that is not a Pair
RECURSIVE ResizeProbe(_, _)
ResizeProbe(new_table, idx) ==
    IF new_table[idx].tag = "Pair"
    THEN ResizeProbe(new_table, (idx + 1) % Cap(new_table))
    ELSE idx

\* a slip of the drain loop: each pair is copied to its old index unhashed
RECURSIVE ResizeDrainCopies(_, _, _)
ResizeDrainCopies(old, i, new_table) ==
    IF i >= Cap(old) THEN new_table
    ELSE IF old[i].tag = "Pair"
         THEN ResizeDrainCopies(old, i + 1, [new_table EXCEPT ![i] = old[i]])
         ELSE ResizeDrainCopies(old, i + 1, new_table)

\* resize, the drain loop from entry i on
RECURSIVE ResizeDrain(_, _, _)
ResizeDrain(old, i, new_table) ==
    IF i >= Cap(old) THEN new_table
    ELSE IF old[i].tag = "Pair"
         THEN ResizeDrain(old, i + 1,
                  [new_table EXCEPT
                     ![ResizeProbe(new_table,
                                   prehash(old[i].key) % Cap(new_table))]
                        = old[i]])
         ELSE ResizeDrain(old, i + 1, new_table)

\* a slip of the growth step: one more slot instead of twice as many
NewSizePlusOne(t, rehash_only) ==
    IF rehash_only THEN Cap(t)
    ELSE IF Cap(t) = 0 THEN INITIAL_SIZE ELSE Cap(t) + 1

\* new_size of resize
NewSize(t, rehash_only) ==
    IF rehash_only THEN Cap(t)
    ELSE IF Cap(t) = 0 THEN INITIAL_SIZE ELSE 2 * Cap(t)

\* a slip of resize: tombs is not reset
resizeKeepsTombs(m, rehash_only) ==
    [table |-> ResizeDrain(m.table, 0, EmptyTable(NewSize(m.table, rehash_only))),
     items |-> m.items,
     tombs |-> m.tombs]

\* HashMap::resize
resize(m, rehash_only) ==
    [table |-> ResizeDrain(m.table, 0, EmptyTable(NewSize(m.table, rehash_only))),
     items |-> m.items,
     tombs |-> 0]

\* HashMap::len
len(m) == m.items

\* HashMap::is_empty
is_empty(m) == m.items = 0

\* a slip of the growth test: > for >=
InsertGrowsStrict(m) ==
    Cap(m.table) = 0 \/ m.items > (3 * Cap(m.table)) \div 4

\* a slip of the growth test: the threshold rounded up instead of down
InsertGrowsCeil(m) ==
    Cap(m.table) = 0 \/ m.items >= (3 * Cap(m.table) + 3) \div 4

\* insert's growth test
InsertGrows(m) ==
    Cap(m.table) = 0 \/ m.items >= (3 * Cap(m.table)) \div 4

\* a slip of the probe loop: a tombstone is taken for a free slot
RECURSIVE InsertProbeReusesTombstone(_, _, _, _)
InsertProbeReusesTombstone(t, key, idx, cnt) ==
    IF t[idx].tag \in {"Empty", "Del"} THEN [kind |-> "Empty", idx |-> idx]
    ELSE IF t[idx].tag = "Pair" /\ t[idx].key = key
         THEN [kind |-> "Found", idx |-> idx]
         ELSE IF cnt > Cap(t)
              THEN [kind |-> "Panic", idx |-> (idx + 1) % Cap(t)]
              ELSE InsertProbeReusesTombstone(t, key, (idx + 1) % Cap(t), cnt + 1)

\* insert's probe loop: stops at an Empty slot, at the key, or at the fence
RECURSIVE InsertProbe(_, _, _, _)
InsertProbe(t, key, idx, cnt) ==
    IF t[idx].tag = "Empty" THEN [kind |-> "Empty", idx |-> idx]
    ELSE IF t[idx].tag = "Pair" /\ t[idx].key = key
         THEN [kind |-> "Found", idx |-> idx]
         ELSE IF cnt > Cap(t)
              THEN [kind |-> "Panic", idx |-> (idx + 1) % Cap(t)]
              ELSE InsertProbe(t, key, (idx + 1) % Cap(t), cnt + 1)

\* a slip of the existing-key branch: the new value is returned, not the old
InsertExistingNoSwap(m, idx, key, value) ==
    [table |-> [m.table EXCEPT ![idx] = Pair(key, value)],
     items |-> m.items, tombs |-> m.tombs,
     res |-> Some(value)]

\* a slip of the existing-key branch: the update is counted as a new item
InsertExistingCounts(m, idx, key, value) ==
    [table |-> [m.table EXCEPT ![idx] = Pair(key, value)],
     items |-> m.items + 1, tombs |-> m.tombs,
     res |-> Some(m.table[idx].val)]

\* insert, "existing key": swap the value in and return the old one
InsertExisting(m, idx, key, value) ==
    [table |-> [m.table EXCEPT ![idx] = Pair(key, value)],
     items |-> m.items, tombs |-> m.tombs,
     res |-> Some(m.table[idx].val)]

\* a slip of the new-key branch: items is not incremented
InsertNewKeepsItems(m, idx, key, value) ==
    [table |-> [m.table EXCEPT ![idx] = Pair(key, value)],
     items |-> m.items, tombs |-> m.tombs,
     res |-> None]

\* insert, "new key": write the pair into the Empty slot
InsertNew(m, idx, key, value) ==
    [table |-> [m.table EXCEPT ![idx] = Pair(key, value)],
     items |-> m.items + 1, tombs |-> m.tombs,
     res |-> None]

\* HashMap::insert: the map after the call and the value returned
insert(m, key, value) ==
    LET m1 == IF InsertGrows(m) THEN resize(m, FALSE) ELSE m
        pi == InsertProbe(m1.table, key, prehash(key) % Cap(m1.table), 0)
    IN  CASE pi.kind = "Found" -> InsertExisting(m1, pi.idx, key, value)
          [] pi.kind = "Panic" ->
               [table |-> m1.table, items |-> m1.items, tombs |-> m1.tombs,
                res |-> Panic]
          [] OTHER -> InsertNew(m1, pi.idx, key, value)

\* a slip of the contamination test: the declutter rehash never runs
ContaminatedNever(m) == FALSE

\* a slip of the contamination test: >= for >
ContaminatedAtThreshold(m) ==
    m.items + m.tombs >= (3 * Cap(m.table)) \div 4

\* the "rehash if contaminated" test of get and remove
Contaminated(m) ==
    m.items + m.tombs > (3 * Cap(m.table)) \div 4

\* get's probe loop
RECURSIVE GetProbe(_, _, _, _)
GetProbe(t, key, idx, cnt) ==
    IF t[idx].tag = "Empty" THEN [kind |-> "Empty", idx |-> idx]
    ELSE IF t[idx].tag = "Pair" /\ t[idx].key = key
         THEN [kind |-> "Found", idx |-> idx]
         ELSE IF cnt > Cap(t)
              THEN [kind |-> "Panic", idx |-> (idx + 1) % Cap(t)]
              ELSE GetProbe(t, key, (idx + 1) % Cap(t), cnt + 1)

\* a slip of get's empty-table guard: the table is allocated before probing
getAllocating(m, key) ==
    LET m1 == IF Cap(m.table) = 0 THEN resize(m, FALSE)
              ELSE IF Contaminated(m) THEN resize(m, TRUE) ELSE m
        pa == GetProbe(m1.table, key, prehash(key) % Cap(m1.table), 0)
    IN  [table |-> m1.table, items |-> m1.items, tombs |-> m1.tombs,
         res |-> CASE pa.kind = "Found" -> Some(m1.table[pa.idx].val)
                   [] pa.kind = "Panic" -> Panic
                   [] OTHER -> None]

\* HashMap::get
get(m, key) ==
    IF Cap(m.table) = 0
    THEN [table |-> m.table, items |-> m.items, tombs |-> m.tombs, res |-> None]
    ELSE LET m1 == IF Contaminated(m) THEN resize(m, TRUE) ELSE m
             pg == GetProbe(m1.table, key, prehash(key) % Cap(m1.table), 0)
         IN  [table |-> m1.table, items |-> m1.items, tombs |-> m1.tombs,
              res |-> CASE pg.kind = "Found" -> Some(m1.table[pg.idx].val)
                        [] pg.kind = "Panic" -> Panic
                        [] OTHER -> None]

\* HashMap::contains_key: get(key).is_some()
contains_key(m, key) ==
    LET g == get(m, key)
    IN  [table |-> g.table, items |-> g.items, tombs |-> g.tombs,
         res |-> IF g.res.kind = "Panic" THEN Panic
                 ELSE Bool(g.res.kind = "Some")]

\* remove's probe loop
RECURSIVE RemoveProbe(_, _, _, _)
RemoveProbe(t, key, idx, cnt) ==
    IF t[idx].tag = "Empty" THEN [kind |-> "Empty", idx |-> idx]
    ELSE IF t[idx].tag = "Pair" /\ t[idx].key = key
         THEN [kind |-> "Found", idx |-> idx]
         ELSE IF cnt > Cap(t)
              THEN [kind |-> "Panic", idx |-> (idx + 1) % Cap(t)]
              ELSE RemoveProbe(t, key, (idx + 1) % Cap(t), cnt + 1)

\* a slip of remove: the slot is cleared instead of tombstoned
RemovedSlotEmpty == Empty

\* what remove writes into the slot of the pair it found
RemovedSlot == Del

\* a slip of remove's found branch: items is not decremented
RemoveFoundKeepsItems(m, idx) ==
    [table |-> [m.table EXCEPT ![idx] = RemovedSlot],
     items |-> m.items, tombs |-> m.tombs + 1,
     res |-> Some(m.table[idx].val)]

\* remove, "found and remove": tombstone the slot, hand the value out
RemoveFound(m, idx) ==
    [table |-> [m.table EXCEPT ![idx] = RemovedSlot],
     items |-> m.items - 1, tombs |-> m.tombs + 1,
     res |-> Some(m.table[idx].val)]

\* HashMap::remove
remove(m, key) ==
    IF Cap(m.table) = 0
    THEN [table |-> m.table, items |-> m.items, tombs |-> m.tombs, res |-> None]
    ELSE LET m1 == IF Contaminated(m) THEN resize(m, TRUE) ELSE m
             pr == RemoveProbe(m1.table, key, prehash(key) % Cap(m1.table), 0)
         IN  CASE pr.kind = "Found" -> RemoveFound(m1, pr.idx)
               [] pr.kind = "Panic" ->
                    [table |-> m1.table, items |-> m1.items,
                     tombs |-> m1.tombs, res |-> Panic]
               [] OTHER ->
                    [table |-> m1.table, items |-> m1.items,
                     tombs |-> m1.tombs, res |-> None]

\* ---- the state machine --------------------------------------------------
\* a call and the resize it made first: "grow", "declutter" or "none"
Call(name, key, val, resized) ==
    [name |-> name, key |-> key, val |-> val, resized |-> resized]

\* Keys are only hashed and compared for equality, so every hash function is
\* a renaming of the keys away from a non-decreasing one.
HashFunctions ==
    {h \in [Keys -> Hashes] : \A a, b \in Keys : a <= b => h[a] <= h[b]}

\* HashMap::new, with any deterministic hash function
Init ==
    /\ table = EmptyTable(0)
    /\ items = 0
    /\ tombs = 0
    /\ hash \in HashFunctions
    /\ op = Call("new", 0, 0, "none")
    /\ res = None
    /\ ref = [k \in Keys |-> 0]
    /\ removed = {}
    /\ grows = 0

\* a panic unwinds out of the caller: no call follows it
Running == res.kind # "Panic"

\* the resize a get, contains_key or remove makes before it probes
Declutters(m) == Cap(m.table) # 0 /\ Contaminated(m)

Insert(key, value) ==
    /\ Running
    /\ \E r \in {insert(Self, key, value)} :
           /\ table' = r.table
           /\ items' = r.items
           /\ tombs' = r.tombs
           /\ res' = r.res
           /\ ref' = IF r.res.kind = "Panic" THEN ref
                     ELSE [ref EXCEPT ![key] = value]
           /\ removed' = IF r.res.kind = "Panic" THEN removed
                         ELSE removed \ {key}
    /\ grows' = IF InsertGrows(Self) THEN grows + 1 ELSE grows
    /\ op' = Call("insert", key, value,
                  IF InsertGrows(Self) THEN "grow" ELSE "none")
    /\ UNCHANGED hash

Get(key) ==
    /\ Running
    /\ \E r \in {get(Self, key)} :
           /\ table' = r.table
           /\ items' = r.items
           /\ tombs' = r.tombs
           /\ res' = r.res
    /\ op' = Call("get", key, 0,
                  IF Declutters(Self) THEN "declutter" ELSE "none")
    /\ UNCHANGED <<hash, ref, removed, grows>>

ContainsKey(key) ==
    /\ Running
    /\ \E r \in {contains_key(Self, key)} :
           /\ table' = r.table
           /\ items' = r.items
           /\ tombs' = r.tombs
           /\ res' = r.res
    /\ op' = Call("contains_key", key, 0,
                  IF Declutters(Self) THEN "declutter" ELSE "none")
    /\ UNCHANGED <<hash, ref, removed, grows>>

Remove(key) ==
    /\ Running
    /\ \E r \in {remove(Self, key)} :
           /\ table' = r.table
           /\ items' = r.items
           /\ tombs' = r.tombs
           /\ res' = r.res
           /\ ref' = IF r.res.kind = "Panic" THEN ref
                     ELSE [ref EXCEPT ![key] = 0]
           /\ removed' = IF r.res.kind = "Some" THEN removed \cup {key}
                         ELSE removed
    /\ op' = Call("remove", key, 0,
                  IF Declutters(Self) THEN "declutter" ELSE "none")
    /\ UNCHANGED <<hash, grows>>

Next ==
    \/ \E key \in Keys, value \in Vals : Insert(key, value)
    \/ \E key \in Keys : Get(key)
    \/ \E key \in Keys : ContainsKey(key)
    \/ \E key \in Keys : Remove(key)

Spec == Init /\ [][Next]_vars

\* ---- what the claims speak of -------------------------------------------
\* the key is stored according to the reference map
Stored(k) == ref[k] # 0

\* the keys the reference map holds
StoredKeys == {k \in Keys : Stored(k)}

\* the slots of t that hold a Pair
PairSlots(t) == {i \in DOMAIN t : t[i].tag = "Pair"}

\* the (key, value) pairs a slot array holds
Contents(t) == {<<t[i].key, t[i].val>> : i \in PairSlots(t)}

\* a slot of t that holds key k
SlotOf(t, k) == CHOOSE i \in PairSlots(t) : t[i].key = k

\* the map a call leaves behind, without the value it returned
MapOf(r) == [table |-> r.table, items |-> r.items, tombs |-> r.tombs]

\* the map as remove probes it: after the declutter rehash, if one is due
AsProbed(m) == IF Declutters(m) THEN resize(m, TRUE) ELSE m

Lookups == {"get", "contains_key", "remove"}

\* C1: no insert call, with any key and value, in any reachable state, reaches
\* the probe-count fence; and an insert that does not grow the table finds an
\* Empty slot or a Pair with its key in the table.
C1_InsertNeverPanics ==
    \A k \in Keys, v \in Vals :
        /\ insert(Self, k, v).res # Panic
        /\ ~InsertGrows(Self) =>
              \E i \in DOMAIN table :
                  \/ table[i].tag = "Empty"
                  \/ table[i].tag = "Pair" /\ table[i].key = k

\* C2: in every reachable state get, contains_key and remove of a key that is
\* not stored return None / false / None and do not reach the fence.
C2_AbsentKeyReportsAbsence ==
    \A k \in Keys :
        ~Stored(k) =>
            /\ get(Self, k).res = None
            /\ contains_key(Self, k).res = Bool(FALSE)
            /\ remove(Self, k).res = None

\* C3: round trip: in every reachable state, for every key whose latest insert
\* was not followed by a successful remove, get returns the value of that
\* insert and contains_key returns true.
C3_RoundTrip ==
    \A k \in Keys :
        Stored(k) =>
            /\ get(Self, k).res = Some(ref[k])
            /\ contains_key(Self, k).res = Bool(TRUE)

\* C3's case: a get has just returned the value of a stored key whose home
\* slot holds a tombstone, in a table that has grown to four slots or more.
C3_Witness ==
    /\ op.name = "get"
    /\ Stored(op.key)
    /\ res = Some(ref[op.key])
    /\ Cap(table) >= 4
    /\ table[prehash(op.key) % Cap(table)].tag = "Del"

\* C4: once remove(k) has returned Some, and as long as no insert(k) follows,
\* get(k) returns None, contains_key(k) false and remove(k) None, without fault.
C4_RemovedStaysAbsent ==
    \A k \in removed :
        /\ get(Self, k).res = None
        /\ contains_key(Self, k).res = Bool(FALSE)
        /\ remove(Self, k).res = None

\* C4's case: a second remove of a removed key has decluttered the table and
\* returned None, with another key still stored.
C4_Witness ==
    /\ op.name = "remove"
    /\ op.key \in removed
    /\ res = None
    /\ op.resized = "declutter"
    /\ items > 0

\* C5: update semantics: in every reachable state, insert(k, v2) of a stored
\* key returns the value stored before, leaves len() as it was, and get(k)
\* returns v2 afterwards, whether or not the insert grows the table first.
C5_UpdateSemantics ==
    \A k \in Keys, v2 \in Vals :
        Stored(k) =>
            /\ insert(Self, k, v2).res = Some(ref[k])
            /\ len(insert(Self, k, v2)) = len(Self)
            /\ get(MapOf(insert(Self, k, v2)), k).res = Some(v2)

\* C5's case: an insert that grew the table has replaced a stored value by a
\* different one and returned the old value.
C5_Witness ==
    /\ op.name = "insert"
    /\ op.resized = "grow"
    /\ res.kind = "Some"
    /\ res.val # op.val
    /\ ref[op.key] = op.val

\* C6 as stated: remove(k) of a stored key returns its value, lowers len() by
\* one, leaves a tombstone in the slot that held k before the call, and keeps
\* every other stored pair.
C6_RemoveTombstonesOldSlot ==
    \A k \in Keys :
        Stored(k) =>
            /\ remove(Self, k).res = Some(ref[k])
            /\ len(remove(Self, k)) = len(Self) - 1
            /\ remove(Self, k).table[SlotOf(table, k)] = Del
            /\ Contents(remove(Self, k).table) = Contents(table) \ {<<k, ref[k]>>}

\* C6 amended: remove(k) of a stored key returns its value, lowers len() by
\* one, leaves a tombstone in the slot where its probe finds k, that is the
\* slot k holds after the declutter rehash when one is due, changes no other
\* slot of the probed array, and keeps every other stored pair.
C6_RemoveTombstonesProbedSlot ==
    \A k \in Keys :
        Stored(k) =>
            /\ remove(Self, k).res = Some(ref[k])
            /\ len(remove(Self, k)) = len(Self) - 1
            /\ remove(Self, k).table =
                 [AsProbed(Self).table EXCEPT
                    ![SlotOf(AsProbed(Self).table, k)] = Del]
            /\ Contents(remove(Self, k).table) = Contents(table) \ {<<k, ref[k]>>}

\* C6's case: a remove that decluttered first has returned the stored value
\* and left a single tombstone, with another key still stored.
C6_Witness ==
    /\ op.name = "remove"
    /\ op.resized = "declutter"
    /\ res.kind = "Some"
    /\ tombs = 1
    /\ items > 0

\* C7: len() is the size of the reference map, is_empty() holds exactly when
\* that size is 0, and insert of a key that is not stored returns None and
\* raises len() by one.
C7_LenMatchesReference ==
    /\ len(Self) = Cardinality(StoredKeys)
    /\ is_empty(Self) <=> Cardinality(StoredKeys) = 0
    /\ \A k \in Keys, v \in Vals :
           ~Stored(k) =>
               /\ insert(Self, k, v).res = None
               /\ len(insert(Self, k, v)) = len(Self) + 1

\* C8: on the map HashMap::new returns (capacity 0), get, contains_key and
\* remove of any key return None / false / None and leave the slot array
\* empty and items and tombs at 0.
C8_EmptyTableContract ==
    Cap(table) = 0 =>
        \A k \in Keys :
            /\ get(Self, k) =
                 [table |-> EmptyTable(0), items |-> 0, tombs |-> 0, res |-> None]
            /\ contains_key(Self, k) =
                 [table |-> EmptyTable(0), items |-> 0, tombs |-> 0,
                  res |-> Bool(FALSE)]
            /\ remove(Self, k) =
                 [table |-> EmptyTable(0), items |-> 0, tombs |-> 0, res |-> None]

\* C8's case: a lookup has been made on the map that was never inserted into.
C8_Witness ==
    /\ Cap(table) = 0
    /\ op.name \in Lookups
    /\ res \in {None, Bool(FALSE)}

\* C9: remove(k) of a key that is not stored returns None and leaves the slot
\* array, items and tombs as they were.
C9_RemoveAbsentNoMutation ==
    \A k \in Keys :
        ~Stored(k) =>
            remove(Self, k) =
                [table |-> table, items |-> items, tombs |-> tombs, res |-> None]

\* C10: the capacity is 0 at first and a power of two afterwards; it changes
\* only 0 -> 1 or n -> 2n, so that k growths give 2^(k-1); it never shrinks,
\* and get, contains_key and remove leave it alone.
C10_CapacitySequence ==
    /\ Cap(table) = 0
    /\ [](Cap(table) = IF grows = 0 THEN 0 ELSE 2 ^ (grows - 1))
    /\ [][/\ Cap(table') # Cap(table) =>
                /\ Cap(table') = IF Cap(table) = 0 THEN 1 ELSE 2 * Cap(table)
                /\ grows' = grows + 1
          /\ Cap(table') >= Cap(table)
          /\ op'.name \in Lookups => Cap(table') = Cap(table)]_vars

\* C10's case: after four growths the table has eight slots, and a remove
\* has just run on it.
C10_Witness ==
    /\ grows = 4
    /\ Cap(table) = 8
    /\ op.name = "remove"

\* the slots of t that hold a tombstone
TombSlots(t) == {i \in DOMAIN t : t[i].tag = "Del"}

\* C11: an insert call changes the capacity exactly when the table is empty
\* or items + 1 exceeds three quarters of the capacity, and then it grows;
\* every other insert call leaves the capacity as it was.
C11_GrowthExactlyAtLoad ==
    \A k \in Keys, v \in Vals :
        /\ Cap(insert(Self, k, v).table) # Cap(table)
              <=> (Cap(table) = 0 \/ 4 * (items + 1) > 3 * Cap(table))
        /\ Cap(insert(Self, k, v).table) >= Cap(table)

\* C11's case: a key that was not stored has been inserted, without growth,
\* into a table of four slots with two live items and a tombstone, and the
\* capacity is still four.
C11_Witness ==
    /\ op.name = "insert"
    /\ op.resized = "none"
    /\ res = None
    /\ Cap(table) = 4
    /\ items = 3
    /\ tombs = 1
    /\ grows = 3

\* C12: in every reachable state with a tombstone and items + tombs above
\* three quarters of the capacity, get of a key that is not stored returns
\* None without reaching the fence and leaves tombs at 0, with items and the
\* capacity as they were.
C12_DeclutterOnGet ==
    (tombs >= 1 /\ 4 * (items + tombs) > 3 * Cap(table)) =>
        \A k \in Keys :
            ~Stored(k) =>
                /\ get(Self, k).res = None
                /\ get(Self, k).tombs = 0
                /\ get(Self, k).items = items
                /\ Cap(get(Self, k).table) = Cap(table)
                /\ TombSlots(get(Self, k).table) = {}

\* C12's case: a get of a key that is not stored has decluttered a table of
\* four slots or more, which only tombstones can contaminate, and returned
\* None with two pairs left in place.
C12_Witness ==
    /\ op.name = "get"
    /\ op.resized = "declutter"
    /\ ~Stored(op.key)
    /\ res = None
    /\ Cap(table) >= 4
    /\ items = 2
    /\ tombs = 0

\* C13: items is the number of Pair slots and tombs the number of tombstone
\* slots, so that 0 <= items <= capacity and 0 <= tombs <= capacity - items.
C13_CounterInvariant ==
    /\ items = Cardinality(PairSlots(table))
    /\ tombs = Cardinality(TombSlots(table))
    /\ 0 <= items /\ items <= Cap(table)
    /\ 0 <= tombs /\ tombs <= Cap(table) - items

\* C13's case: after inserts and removes the table holds pairs and
\* tombstones and no Empty slot.
C13_Witness ==
    /\ items >= 1
    /\ tombs >= 2
    /\ items + tombs = Cap(table)
    /\ op.name = "insert"

\* C14: no two Pair slots hold equal keys.
C14_KeyUniqueness ==
    \A i, j \in PairSlots(table) : table[i].key = table[j].key => i = j

\* C14's case: a key has been removed and inserted again, and now sits past
\* the tombstone that its removal or another left in its home slot, in a
\* table that has grown and been decluttered before.
C14_Witness ==
    /\ op.name = "insert"
    /\ res = None
    /\ Stored(op.key)
    /\ Cap(table) >= 4
    /\ table[prehash(op.key) % Cap(table)].tag = "Del"
    /\ \E i \in PairSlots(table) : table[i].key = op.key

\* C15: growth and declutter alike keep the stored pairs: the (key, value)
\* pairs and their number are the same after resize, items is unchanged,
\* tombs is 0 and no slot of the new array is a tombstone.
C15_ResizePreservesContents ==
    \A rehash_only \in BOOLEAN :
        /\ Contents(resize(Self, rehash_only).table) = Contents(table)
        /\ Cardinality(PairSlots(resize(Self, rehash_only).table))
              = Cardinality(PairSlots(table))
        /\ resize(Self, rehash_only).items = items
        /\ resize(Self, rehash_only).tombs = 0
        /\ TombSlots(resize(Self, rehash_only).table) = {}

\* C15's case: a lookup has decluttered a table of four slots or more and
\* left its three pairs and no tombstone.
C15_Witness ==
    /\ op.name \in Lookups
    /\ op.resized = "declutter"
    /\ Cap(table) >= 4
    /\ Cardinality(Contents(table)) = 3
    /\ tombs = 0

\* the home slot of key k in slot array t: hash(k) mod capacity
Home(t, k) == prehash(k) % Cap(t)

\* the slots of the wrapping walk from the home slot of the key at p up to,
\* and without, p
WalkTo(t, p) ==
    {(Home(t, t[p].key) + d) % Cap(t) :
        d \in 0..(((p - Home(t, t[p].key) + Cap(t)) % Cap(t)) - 1)}

\* a probe started at the home slot of the key at p meets no Empty slot
\* before p
OnProbePath(t, p) == \A i \in WalkTo(t, p) : t[i].tag # "Empty"

\* the capacity resize(false) gives
Grown(t) == IF Cap(t) = 0 THEN 1 ELSE 2 * Cap(t)

\* C16 as stated: insert grows exactly when the table is empty or items is at
\* least three quarters of the capacity rounded up, and the pair it leaves
\* sits on the probe walk of the capacity after the growth.
C16_GrowthTestCeil ==
    \A k \in Keys, v \in Vals :
        LET r16o == insert(Self, k, v)
        IN  /\ Cap(r16o.table) =
                 IF Cap(table) = 0 \/ 4 * items >= 3 * Cap(table)
                 THEN Grown(table) ELSE Cap(table)
            /\ r16o.res # Panic =>
                 \E p \in PairSlots(r16o.table) :
                     r16o.table[p] = Pair(k, v) /\ OnProbePath(r16o.table, p)

\* C16 amended: insert grows exactly when the table is empty or items is at
\* least 3 * capacity / 4 in integer division (rounded down), and the pair it
\* leaves sits on the probe walk of the capacity after the growth.
C16_GrowthTestFloor ==
    \A k \in Keys, v \in Vals :
        LET r16 == insert(Self, k, v)
        IN  /\ Cap(r16.table) =
                 IF Cap(table) = 0 \/ items >= (3 * Cap(table)) \div 4
                 THEN Grown(table) ELSE Cap(table)
            /\ r16.res # Panic =>
                 \E p \in PairSlots(r16.table) :
                     r16.table[p] = Pair(k, v) /\ OnProbePath(r16.table, p)

\* C16's case: an insert has grown a table of two slots that held one live
\* item, where the two roundings differ, and put its new pair in the table
\* of four.
C16_Witness ==
    /\ op.name = "insert"
    /\ op.resized = "grow"
    /\ res = None
    /\ Cap(table) = 4
    /\ items = 2
    /\ table[Home(table, op.key)] = Pair(op.key, op.val)

\* what a lookup leaves of the map before it probes, if it declutters
\* exactly under the test given
LookupLeaves(declutter) == IF declutter THEN resize(Self, TRUE) ELSE Self

\* what get, contains_key and remove do to the map when the declutter test
\* is the one given: get and contains_key leave the map as decluttered or as
\* it was, and remove does too but for the pair it takes out
LookupsDeclutterWhen(declutter) ==
    \A k \in Keys :
        /\ MapOf(get(Self, k)) = LookupLeaves(declutter)
        /\ MapOf(contains_key(Self, k)) = LookupLeaves(declutter)
        /\ remove(Self, k).res.kind # "Some" =>
               MapOf(remove(Self, k)) = LookupLeaves(declutter)
        /\ remove(Self, k).res.kind = "Some" =>
               /\ remove(Self, k).tombs = LookupLeaves(declutter).tombs + 1
               /\ TombSlots(remove(Self, k).table) \subseteq
                    TombSlots(LookupLeaves(declutter).table)
                      \cup PairSlots(LookupLeaves(declutter).table)

\* C17 as stated: get, contains_key and remove declutter before probing
\* exactly when the table is not empty and items + tombs exceeds three
\* quarters of the capacity rounded up.
C17_DeclutterTestCeil ==
    LookupsDeclutterWhen(
        Cap(table) # 0 /\ items + tombs > (3 * Cap(table) + 3) \div 4)

\* C17 amended: get, contains_key and remove declutter before probing exactly
\* when the table is not empty and items + tombs exceeds 3 * capacity / 4 in
\* integer division (rounded down).
C17_DeclutterTestFloor ==
    LookupsDeclutterWhen(
        Cap(table) # 0 /\ items + tombs > (3 * Cap(table)) \div 4)

\* C17's case: a get has decluttered a table of two slots that held one live
\* item and one tombstone.
C17_Witness ==
    /\ op.name = "get"
    /\ op.resized = "declutter"
    /\ Cap(table) = 2
    /\ items = 1
    /\ tombs = 0
    /\ res.kind = "Some"

\* C18: an insert call that does not grow the table leaves every tombstone a
\* tombstone and tombs as it was, and writes a new pair only into a slot that
\* was Empty; a tombstone goes away only in a call that resizes.
C18_InsertNeverReusesTombstone ==
    /\ [](\A k \in Keys, v \in Vals :
            LET r18 == insert(Self, k, v)
            IN  Cap(r18.table) = Cap(table) =>
                  /\ TombSlots(r18.table) = TombSlots(table)
                  /\ r18.tombs = tombs
                  /\ \A i \in PairSlots(r18.table) \ PairSlots(table) :
                         table[i].tag = "Empty")
    /\ [][~(TombSlots(table) \subseteq TombSlots(table')) =>
              op'.resized \in {"grow", "declutter"}]_vars

\* C18's case: an insert that did not grow the table has walked over the
\* tombstone in its key's home slot and written the new pair further on.
C18_Witness ==
    /\ op.name = "insert"
    /\ op.resized = "none"
    /\ res = None
    /\ tombs >= 1
    /\ table[Home(table, op.key)].tag = "Del"

\* C19 as stated: insert(k, v) of a stored key leaves items and tombs as
\* they were.
C19_UpdateKeepsBothCounters ==
    \A k \in Keys, v \in Vals :
        Stored(k) =>
            /\ insert(Self, k, v).items = items
            /\ insert(Self, k, v).tombs = tombs

\* C19 amended: insert(k, v) of a stored key leaves items as it was, and
\* tombs too unless the insert grows the table first, which sets tombs to 0.
C19_UpdateKeepsCountersUnlessGrown ==
    \A k \in Keys, v \in Vals :
        Stored(k) =>
            /\ insert(Self, k, v).items = items
            /\ insert(Self, k, v).tombs =
                 IF Cap(insert(Self, k, v).table) # Cap(table) THEN 0 ELSE tombs

\* C19's case: an insert of a stored key has grown the full table of four
\* slots to eight and left tombs at 0.
C19_Witness ==
    /\ op.name = "insert"
    /\ op.resized = "grow"
    /\ res.kind = "Some"
    /\ Cap(table) = 8
    /\ items = 3
    /\ tombs = 0

\* C20: for every Pair slot, no slot of the wrapping walk from the home slot
\* of its key up to it is Empty, so that a probe from the home slot reaches
\* the pair.
C20_ProbePathInvariant ==
    \A p \in PairSlots(table) : OnProbePath(table, p)

\* C20's case: a pair sits before its home slot, reached by wrapping around
\* the end of the array, and the home slot holds a tombstone.
C20_Witness ==
    \E p \in PairSlots(table) :
        /\ p < Home(table, table[p].key)
        /\ table[Home(table, table[p].key)].tag = "Del"
====
